---- MODULE Spec2Model ----
(***************************************************************************)
(* Reminder scheduling of NotesBot: the reminder store (database.py), the  *)
(* recurrence calculator (time_utils.py), the two reminder_scheduler loops *)
(* (bot_modular.py and bot_modular_old.py) and the boot paths (main.py,    *)
(* bot_modular.py, bot_modular_old.py).                                    *)
(*                                                                         *)
(* Time is counted in whole hours.  A stored reminder_time is the          *)
(* wall-clock reading of its text, in hours since 1970-01-01 00:00, plus a *)
(* flag telling whether the text carries a UTC offset (a zone-aware value  *)
(* written by TimeParser) or not (a naive datetime.now() value).           *)
(***************************************************************************)
EXTENDS Integers, Sequences, FiniteSets, TLC

\* ------------------------------------------------------------------ bounds
MaxReminders == 2
MaxNow == 1
MaxFails == 2
MaxAmount == 2
MaxInterval == 2
MaxOccurrences == 2

\* ------------------------------------------------------- program constants
HoursPerDay == 24
ModularPollSeconds == 60
OldPollSeconds == 30
BackoffSeconds == 60

Ids == 1..MaxReminders
BootPaths == {"main", "bot_modular", "bot_modular_old"}
\* offset of the server's local clock from UTC, in hours (a clock east of
\* UTC passes every check that the UTC clock passes)
ServerOffsets == {-3, 0}

\* ------------------------------------------------------ calendar arithmetic
IsLeap(y) == (y % 4 = 0 /\ y % 100 # 0) \/ y % 400 = 0

DaysInMonth(y, m) ==
    IF m = 2 THEN (IF IsLeap(y) THEN 29 ELSE 28)
    ELSE IF m \in {4, 6, 9, 11} THEN 30 ELSE 31

\* days since 1970-01-01 of the civil date y-m-d
DaysFromCivil(y, m, d) ==
    LET yy == IF m <= 2 THEN y - 1 ELSE y
        era == yy \div 400
        yoe == yy - era * 400
        mp == IF m > 2 THEN m - 3 ELSE m + 9
        doy == (153 * mp + 2) \div 5 + d - 1
        doe == yoe * 365 + yoe \div 4 - yoe \div 100 + doy
    IN era * 146097 + doe - 719468

\* the civil date of day z since 1970-01-01
CivilFromDays(z) ==
    LET zz == z + 719468
        era == zz \div 146097
        doe == zz - era * 146097
        yoe == (doe - doe \div 1460 + doe \div 36524 - doe \div 146096) \div 365
        doy == doe - (365 * yoe + yoe \div 4 - yoe \div 100)
        mp == (5 * doy + 2) \div 153
        d == doy - (153 * mp + 2) \div 5 + 1
        m == IF mp < 10 THEN mp + 3 ELSE mp - 9
        y == yoe + era * 400 + (IF m <= 2 THEN 1 ELSE 0)
    IN [y |-> y, m |-> m, d |-> d]

\* mutant of AddMonths: the day of month is not clamped, and a day the
\* target month does not have runs over into the next month
AddMonths_Overflows(t, n) ==
    LET day == t \div HoursPerDay
        hour == t % HoursPerDay
        c == CivilFromDays(day)
        total == (c.m - 1) + n
        y == c.y + total \div 12
        m == (total % 12) + 1
    IN DaysFromCivil(y, m, c.d) * HoursPerDay + hour

\* mutant of AddMonths: the last day of a month goes to the last day of
\* the target month
AddMonths_StaysAtMonthEnd(t, n) ==
    LET day == t \div HoursPerDay
        hour == t % HoursPerDay
        c == CivilFromDays(day)
        total == (c.m - 1) + n
        y == c.y + total \div 12
        m == (total % 12) + 1
        d == IF c.d >= DaysInMonth(c.y, c.m) \/ c.d > DaysInMonth(y, m)
             THEN DaysInMonth(y, m) ELSE c.d
    IN DaysFromCivil(y, m, d) * HoursPerDay + hour

\* dateutil's relativedelta(months=n) added to timestamp t: the month moves,
\* the day of month is clamped to the target month's length, the hour stays
AddMonths(t, n) ==
    LET day == t \div HoursPerDay
        hour == t % HoursPerDay
        c == CivilFromDays(day)
        total == (c.m - 1) + n
        y == c.y + total \div 12
        m == (total % 12) + 1
        d == IF c.d > DaysInMonth(y, m) THEN DaysInMonth(y, m) ELSE c.d
    IN DaysFromCivil(y, m, d) * HoursPerDay + hour

\* mutant of calculate_next_reminder_time: the interval is left out, one
\* unit is added
calculate_next_reminder_time_OneUnit(current_time, repeat_type, repeat_interval) ==
    CASE repeat_type \in {"hourly", "hours"} -> current_time + 1
      [] repeat_type \in {"daily", "day", "days"} ->
             current_time + HoursPerDay
      [] repeat_type \in {"weekly", "week", "weeks"} ->
             current_time + 7 * HoursPerDay
      [] repeat_type \in {"monthly", "month", "months"} ->
             AddMonths(current_time, 1)
      [] repeat_type \in {"yearly", "year", "years", "annually"} ->
             AddMonths(current_time, 12)
      [] OTHER -> current_time + HoursPerDay

\* time_utils.calculate_next_reminder_time
calculate_next_reminder_time(current_time, repeat_type, repeat_interval) ==
    LET n == IF repeat_interval < 1 THEN 1 ELSE repeat_interval
    IN CASE repeat_type \in {"hourly", "hours"} -> current_time + n
         [] repeat_type \in {"daily", "day", "days"} ->
                current_time + n * HoursPerDay
         [] repeat_type \in {"weekly", "week", "weeks"} ->
                current_time + n * 7 * HoursPerDay
         [] repeat_type \in {"monthly", "month", "months"} ->
                AddMonths(current_time, n)
         [] repeat_type \in {"yearly", "year", "years", "annually"} ->
                AddMonths(current_time, 12 * n)
         [] OTHER -> current_time + n * HoursPerDay

\* ------------------------------------------------------------------- state
VARIABLES
    boot,        \* which entry point runs this process
    tz,          \* the server's local-clock offset from UTC
    app,         \* "boot", "polling" or "exited"
    nsched,      \* number of reminder_scheduler tasks created so far
    now,         \* the UTC clock
    store,       \* the reminders table: id -> row
    pc,          \* the await the scheduler task is suspended at
    batch,       \* the rows returned by the last successful fetch
    tickNow,     \* the UTC clock that fetch compared with
    idx,         \* position in batch of the row being dispatched
    attempts,    \* id -> dispatch attempts started since the last fetch
    outcome,     \* id -> outcome of its dispatch attempt since the last fetch
    slept,       \* seconds slept since the last fetch returned or raised
    fails,       \* consecutive failed fetches (saturating at MaxFails)
    failedPrev   \* ids whose dispatch failed in the tick before this one

\* the scheduler's part of the state
svars == <<boot, tz, app, nsched, now, store, pc, batch, tickNow, idx,
           attempts, outcome, slept, fails, failedPrev>>

\* a call of the time parser: its arguments and what the entry points return
VARIABLES
    text,        \* the text handed to the parser
    reference,   \* base_time: the instant the handler parses the text at
    called,      \* the entry points that have returned
    parsed,      \* what TimeParser.parse_time(text, reference) returned
    parsedInput, \* what parse_time_input(text) returned
    data,        \* the FSM data of the user who creates a reminder
    moscowNow,   \* the wall clock datetime.now(self.timezone) reads
    repeated     \* what the entry points returned when called again later

pvars == <<text, reference, called, parsed, parsedInput, data, moscowNow,
           repeated>>

\* calls of the recurrence calculator
VARIABLES
    recurrence,  \* the repeat_type and repeat_interval of the calls
    occurrences  \* current_time of the first call, then what each call
                 \* returned; every call but the first is given the return
                 \* of the call before it

cvars == <<recurrence, occurrences>>

vars == <<svars, pvars, cvars>>

\* no calculator call is going on
CalculatorIdle ==
    /\ recurrence = [repeat_type |-> "none", repeat_interval |-> 0]
    /\ occurrences = <<>>

\* no call has returned yet
Pending == [kind |-> "pending", t |-> 0, remainder |-> <<>>]

\* state.clear(): no key is set (a key is <<>> when absent, <<value>> when
\* set)
NoData == [reminder_text |-> <<>>, reminder_time |-> <<>>,
           reminder_repeat |-> <<>>]

\* no parser call is going on
ParserIdle ==
    /\ text = <<>>
    /\ reference = 0
    /\ called = {}
    /\ parsed = Pending
    /\ parsedInput = Pending
    /\ data = NoData
    /\ moscowNow = reference
    /\ repeated = [parsed |-> Pending, parsedInput |-> Pending]

\* the text of a stored timestamp: wall-clock hours and whether it ends in
\* a UTC offset
TimeText(wall, aware) == [wall |-> wall, aware |-> aware]

\* sqlite3's adapter writes a datetime as isoformat(" "): an aware value
\* keeps its +03:00 suffix
adapt_datetime(wall, aware) == TimeText(wall, aware)

\* strftime("%Y-%m-%d %H:%M:%S"): the offset is not written
strftime(wall) == TimeText(wall, FALSE)

\* Database.add_reminder: the row inserted (is_active DEFAULT TRUE)
add_reminder(reminder_time, repeat_type, repeat_interval) ==
    [reminder_time |-> reminder_time, is_active |-> TRUE,
     repeat_type |-> repeat_type, repeat_interval |-> repeat_interval]

\* a sample of the rows the creation handlers write: a preset or /remind
\* time is a naive datetime.now() + delta, a typed time is TimeParser's
\* zone-aware value; handlers/reminders.py leaves repeat_interval at 0,
\* bot_modular_old.py stores 1 and a strftime text.  Times before 0 are due
\* at the first poll, time 1 falls due while the process runs
CreatedRows ==
    << add_reminder(adapt_datetime(-2, FALSE), "none", 0),
       add_reminder(adapt_datetime(-2, TRUE), "none", 0),
       add_reminder(strftime(-2), "daily", 1),
       add_reminder(adapt_datetime(-2, TRUE), "monthly", 0),
       add_reminder(adapt_datetime(1, FALSE), "weekly", 0),
       add_reminder(adapt_datetime(1, FALSE), "none", 0) >>

\* the stores the runs start from: every choice of sample rows, numbered in
\* the order of the sample
InitialStores ==
    { [i \in Ids |-> CreatedRows[f[i]]] :
        f \in { g \in [Ids -> DOMAIN CreatedRows] :
                   \A i, j \in Ids : i < j => g[i] <= g[j] } }

\* datetime.now(): the server's local wall clock
LocalNow == now + tz

\* ORDER BY reminder_time ASC on the stored text: a text is a proper prefix
\* of the same reading with an offset, so it sorts first; ties by rowid
TextBefore(a, b) ==
    \/ a.reminder_time.wall < b.reminder_time.wall
    \/ /\ a.reminder_time.wall = b.reminder_time.wall
       /\ ~a.reminder_time.aware /\ b.reminder_time.aware
    \/ /\ a.reminder_time = b.reminder_time
       /\ a.id < b.id

RECURSIVE OrderRows(_)
OrderRows(rows) ==
    IF rows = {} THEN <<>>
    ELSE LET first == CHOOSE r \in rows :
                          \A o \in rows \ {r} : TextBefore(r, o)
         IN <<first>> \o OrderRows(rows \ {first})

\* mutant of IsDueRow: the is_active condition is left out of the WHERE
IsDueRow_IgnoresActive(row, utc) == row.reminder_time.wall <= utc

\* WHERE is_active = TRUE AND reminder_time <= datetime('now'): a comparison
\* of the stored text with the UTC clock's text
IsDueRow(row, utc) == row.is_active /\ row.reminder_time.wall <= utc

\* Database.get_active_reminders() without user_id
get_active_reminders(s, utc) ==
    OrderRows({ [id |-> i, reminder_time |-> s[i].reminder_time,
                 is_active |-> s[i].is_active,
                 repeat_type |-> s[i].repeat_type,
                 repeat_interval |-> s[i].repeat_interval] :
                i \in { j \in DOMAIN s : IsDueRow(s[j], utc) } })

\* mutant of update_reminder: a row that is gone is written anew (INSERT OR
\* REPLACE in place of UPDATE ... WHERE id = ?)
update_reminder_Upsert(s, id, kwargs) ==
    IF id \notin DOMAIN s
    THEN [i \in DOMAIN s \cup {id} |->
             IF i = id
             THEN [reminder_time |->
                       IF "reminder_time" \in DOMAIN kwargs
                       THEN kwargs.reminder_time ELSE TimeText(0, FALSE),
                   is_active |-> kwargs.is_active,
                   repeat_type |-> "none", repeat_interval |-> 0]
             ELSE s[i]]
    ELSE [s EXCEPT ![id] =
             [f \in DOMAIN @ |-> IF f \in DOMAIN kwargs THEN kwargs[f]
                                                         ELSE @[f]]]

\* Database.update_reminder: sets the given columns of the row with that
\* id; no row, no change
update_reminder(s, id, kwargs) ==
    IF id \notin DOMAIN s THEN s
    ELSE [s EXCEPT ![id] =
             [f \in DOMAIN @ |-> IF f \in DOMAIN kwargs THEN kwargs[f]
                                                         ELSE @[f]]]

\* bot_modular.reminder_scheduler, lines 183-190: is a fetched row sent?
\* fromisoformat of a text with an offset gives an aware datetime, and its
\* comparison with the naive datetime.now() raises TypeError, which the
\* per-reminder handler logs
ModularSends(row, localnow) ==
    /\ ~row.reminder_time.aware
    /\ row.reminder_time.wall <= localnow

\* bot_modular_old.reminder_scheduler sends every fetched row
OldSends(row, localnow) == TRUE

Sends(row, localnow) ==
    IF boot = "bot_modular" THEN ModularSends(row, localnow)
                            ELSE OldSends(row, localnow)

\* the first position from i on whose row is sent, Len + 1 when none
RECURSIVE NextSendable(_, _, _)
NextSendable(rows, i, localnow) ==
    IF i > Len(rows) THEN i
    ELSE IF Sends(rows[i], localnow) THEN i
    ELSE NextSendable(rows, i + 1, localnow)

\* the columns the scheduler writes after a delivered notification
ModularUpdate(row) == [is_active |-> FALSE]

OldUpdate(row) ==
    LET repeat_type == row.repeat_type
        repeat_interval == IF row.repeat_interval = 0 THEN 1
                           ELSE row.repeat_interval
    IN IF repeat_type # "none"
       THEN [reminder_time |->
                 strftime(calculate_next_reminder_time(
                     row.reminder_time.wall, repeat_type, repeat_interval)),
             is_active |-> TRUE]
       ELSE [is_active |-> FALSE]

\* mutant of SchedulerUpdate: a repeating reminder is written back with the
\* time it had
SchedulerUpdate_SameTime(row) ==
    IF boot = "bot_modular" THEN ModularUpdate(row)
    ELSE IF row.repeat_type # "none"
         THEN [reminder_time |-> strftime(row.reminder_time.wall),
               is_active |-> TRUE]
         ELSE [is_active |-> FALSE]

\* mutant of SchedulerUpdate: the row is written back still active
SchedulerUpdate_KeepsActive(row) == [is_active |-> TRUE]

SchedulerUpdate(row) ==
    IF boot = "bot_modular" THEN ModularUpdate(row) ELSE OldUpdate(row)

PollSeconds == IF boot = "bot_modular" THEN ModularPollSeconds
                                       ELSE OldPollSeconds

\* ------------------------------------------------------------------ actions
Init ==
    /\ boot \in BootPaths
    /\ tz \in ServerOffsets
    /\ app = "boot"
    /\ nsched = 0
    /\ now = 0
    /\ store \in InitialStores
    /\ pc = "off"
    /\ batch = <<>>
    /\ tickNow = 0
    /\ idx = 0
    /\ attempts = [i \in Ids |-> 0]
    /\ outcome = [i \in Ids |-> "none"]
    /\ slept = 0
    /\ fails = 0
    /\ failedPrev = {}
    /\ ParserIdle
    /\ CalculatorIdle

\* the loop runs on, without an await, to the next row it sends or to the
\* end of the batch
Advance(rows, from, atts, outs) ==
    LET j == NextSendable(rows, from, LocalNow)
    IN /\ idx' = j
       /\ IF j <= Len(rows)
          THEN /\ pc' = "send"
               /\ attempts' = [atts EXCEPT ![rows[j].id] = @ + 1]
               /\ outcome' = [outs EXCEPT ![rows[j].id] = "pending"]
          ELSE /\ pc' = "sleep"
               /\ attempts' = atts
               /\ outcome' = outs

\* main(): init_db, create_task(reminder_scheduler()) where the entry point
\* has it, then start_polling
Boot ==
    /\ app = "boot"
    /\ app' = "polling"
    /\ nsched' = IF boot = "main" THEN nsched ELSE nsched + 1
    /\ pc' = CASE boot = "main" -> "off"
               [] boot = "bot_modular" -> "sleep"
               [] OTHER -> "fetch"
    /\ UNCHANGED <<pvars, cvars, boot, tz, now, store, batch, tickNow, idx, attempts, outcome,
                   slept, fails, failedPrev>>

\* asyncio.run(main()) returns: the tasks still pending are cancelled, and
\* CancelledError is raised at the await the scheduler is suspended at
Shutdown ==
    /\ app = "polling"
    /\ app' = "exited"
    /\ pc' = IF pc = "off" THEN "off" ELSE "cancelled"
    /\ UNCHANGED <<pvars, cvars, boot, tz, nsched, now, store, batch, tickNow, idx, attempts,
                   outcome, slept, fails, failedPrev>>

\* the clock
Tick ==
    /\ app # "exited"
    /\ now < MaxNow
    /\ now' = now + 1
    /\ UNCHANGED <<pvars, cvars, boot, tz, app, nsched, store, pc, batch, tickNow, idx, attempts,
                   outcome, slept, fails, failedPrev>>

\* await asyncio.sleep(poll interval) returns
SleepDone ==
    /\ pc = "sleep"
    /\ pc' = "fetch"
    /\ slept' = slept + PollSeconds
    /\ UNCHANGED <<pvars, cvars, boot, tz, app, nsched, now, store, batch, tickNow, idx, attempts,
                   outcome, fails, failedPrev>>

\* mutant of FetchOk: the fetched rows are deactivated before they are sent
FetchOk_MarksFirst ==
    /\ pc = "fetch"
    /\ batch' = get_active_reminders(store, now)
    /\ tickNow' = now
    /\ store' = [i \in DOMAIN store |->
                    IF IsDueRow(store[i], now)
                    THEN [store[i] EXCEPT !.is_active = FALSE]
                    ELSE store[i]]
    /\ failedPrev' = { i \in Ids : attempts[i] > 0 /\ outcome[i] = "fail" }
    /\ Advance(batch', 1, [i \in Ids |-> 0], [i \in Ids |-> "none"])
    /\ slept' = 0
    /\ fails' = 0
    /\ UNCHANGED <<pvars, cvars, boot, tz, app, nsched, now>>

\* await db.get_active_reminders() returns the due rows
FetchOk ==
    /\ pc = "fetch"
    /\ batch' = get_active_reminders(store, now)
    /\ tickNow' = now
    /\ failedPrev' = { i \in Ids : attempts[i] > 0 /\ outcome[i] = "fail" }
    /\ Advance(batch', 1, [i \in Ids |-> 0], [i \in Ids |-> "none"])
    /\ slept' = 0
    /\ fails' = 0
    /\ UNCHANGED <<pvars, cvars, boot, tz, app, nsched, now, store>>

\* mutant of FetchFail: the handler does not sleep before the loop goes on
FetchFail_NoBackoff ==
    /\ pc = "fetch"
    /\ pc' = IF boot = "bot_modular" THEN "sleep" ELSE "fetch"
    /\ slept' = 0
    /\ fails' = IF fails < MaxFails THEN fails + 1 ELSE fails
    /\ UNCHANGED <<pvars, cvars, boot, tz, app, nsched, now, store, batch, tickNow, idx,
                   attempts, outcome, failedPrev>>

\* await db.get_active_reminders() raises: the loop-level handler
FetchFail ==
    /\ pc = "fetch"
    /\ pc' = "backoff"
    /\ slept' = 0
    /\ fails' = IF fails < MaxFails THEN fails + 1 ELSE fails
    /\ UNCHANGED <<pvars, cvars, boot, tz, app, nsched, now, store, batch, tickNow, idx, attempts,
                   outcome, failedPrev>>

\* the handler's await asyncio.sleep(60) returns
BackoffDone ==
    /\ pc = "backoff"
    /\ slept' = slept + BackoffSeconds
    /\ pc' = IF boot = "bot_modular" THEN "sleep" ELSE "fetch"
    /\ UNCHANGED <<pvars, cvars, boot, tz, app, nsched, now, store, batch, tickNow, idx, attempts,
                   outcome, fails, failedPrev>>

\* await bot.send_message(...) returns for reminder r
SendOk(r) ==
    /\ pc = "send"
    /\ batch[idx].id = r
    /\ pc' = "update"
    /\ outcome' = [outcome EXCEPT ![r] = "sent"]
    /\ UNCHANGED <<pvars, cvars, boot, tz, app, nsched, now, store, batch, tickNow, idx, attempts,
                   slept, fails, failedPrev>>

\* mutant of SendFail: a failed send gives the reminder up
SendFail_Deactivates ==
    /\ pc = "send"
    /\ store' = update_reminder(store, batch[idx].id, [is_active |-> FALSE])
    /\ Advance(batch, idx + 1, attempts,
               [outcome EXCEPT ![batch[idx].id] = "fail"])
    /\ UNCHANGED <<pvars, cvars, boot, tz, app, nsched, now, batch, tickNow, slept, fails,
                   failedPrev>>

\* mutant of SendFail: the exception reaches the loop-level handler
SendFail_AbortsBatch ==
    /\ pc = "send"
    /\ pc' = "backoff"
    /\ outcome' = [outcome EXCEPT ![batch[idx].id] = "fail"]
    /\ UNCHANGED <<pvars, cvars, boot, tz, app, nsched, now, store, batch, tickNow, idx,
                   attempts, slept, fails, failedPrev>>

\* await bot.send_message(...) raises: logged, next row
SendFail ==
    /\ pc = "send"
    /\ Advance(batch, idx + 1, attempts,
               [outcome EXCEPT ![batch[idx].id] = "fail"])
    /\ UNCHANGED <<pvars, cvars, boot, tz, app, nsched, now, store, batch, tickNow, slept, fails,
                   failedPrev>>

\* await db.update_reminder(...) returns
UpdateOk ==
    /\ pc = "update"
    /\ store' = update_reminder(store, batch[idx].id,
                                SchedulerUpdate(batch[idx]))
    /\ Advance(batch, idx + 1, attempts,
               [outcome EXCEPT ![batch[idx].id] = "done"])
    /\ UNCHANGED <<pvars, cvars, boot, tz, app, nsched, now, batch, tickNow, slept, fails,
                   failedPrev>>

\* await db.update_reminder(...) raises: logged, next row
UpdateFail ==
    /\ pc = "update"
    /\ Advance(batch, idx + 1, attempts, outcome)
    /\ UNCHANGED <<pvars, cvars, boot, tz, app, nsched, now, store, batch, tickNow, slept, fails,
                   failedPrev>>

\* the user a reminder belongs to: the reminders are shared out between
\* two users
user_id(id) == (id % 2) + 1

Users == { user_id(i) : i \in Ids }

\* the fetched reminders whose update is still to come
InFlight ==
    IF pc \in {"send", "update"}
    THEN { batch[i].id : i \in idx..Len(batch) } ELSE {}

\* Database.delete_reminder, called by a user's handler between the
\* scheduler's fetch and its update of that reminder, on a store from which
\* nothing was deleted yet: DELETE FROM reminders WHERE id = ? AND user_id = ?
delete_reminder(reminder_id) ==
    /\ app = "polling"
    /\ DOMAIN store = Ids
    /\ reminder_id \in DOMAIN store \cap InFlight
    /\ store' = [i \in DOMAIN store \ {reminder_id} |-> store[i]]
    /\ UNCHANGED <<pvars, cvars, boot, tz, app, nsched, now, pc, batch, tickNow, idx,
                   attempts, outcome, slept, fails, failedPrev>>

\* Database.clear_user_data, called between the scheduler's fetch and its
\* update of a reminder of that user: DELETE FROM reminders WHERE user_id = ?
clear_user_data(user) ==
    /\ app = "polling"
    /\ DOMAIN store = Ids
    /\ \E i \in DOMAIN store \cap InFlight : user_id(i) = user
    /\ store' = [i \in { j \in DOMAIN store : user_id(j) # user } |-> store[i]]
    /\ UNCHANGED <<pvars, cvars, boot, tz, app, nsched, now, pc, batch, tickNow, idx,
                   attempts, outcome, slept, fails, failedPrev>>

Next ==
    \/ Boot
    \/ Shutdown
    \/ Tick
    \/ SleepDone
    \/ FetchOk
    \/ FetchFail
    \/ BackoffDone
    \/ \E r \in Ids : SendOk(r)
    \/ SendFail
    \/ UpdateOk
    \/ UpdateFail

Spec == Init /\ [][Next]_vars

TypeOK ==
    /\ boot \in BootPaths
    /\ app \in {"boot", "polling", "exited"}
    /\ pc \in {"off", "sleep", "fetch", "send", "update", "backoff",
               "cancelled"}
    /\ now \in 0..MaxNow

\* a run in which the scheduler is scheduled, every await returns, the store
\* answers a fetch again and again and the sink accepts each reminder's
\* message again and again
Fairness ==
    /\ WF_vars(SleepDone)
    /\ WF_vars(BackoffDone)
    /\ WF_vars(FetchOk \/ FetchFail)
    /\ SF_vars(FetchOk)
    /\ WF_vars(SendFail \/ \E r \in Ids : SendOk(r))
    /\ \A r \in Ids : SF_vars(SendOk(r))
    /\ WF_vars(UpdateOk \/ UpdateFail)

FairSpec == Init /\ [][Next]_vars /\ Fairness

\* the user operations that remove reminders
UserNext ==
    \/ \E r \in Ids : delete_reminder(r)
    \/ \E u \in Users : clear_user_data(u)

\* the live scheduler (bot_modular.main) next to users who delete reminders
UserInit == Init /\ boot = "bot_modular"

UserSpec == UserInit /\ [][Next \/ UserNext]_vars

\* ------------------------------------------------------------ time parser
\* A text is a sequence of pieces: the stretches of characters at whose
\* borders the parser's patterns and literals begin and end (the Russian
\* words are written in Latin letters).  A word the patterns can match a
\* part of is written as its parts: "poslezavtra" is "posle" "zavtra",
\* "minuty" is "minut" "y", "sredu" is "sred" "u".  A piece is a word part
\* (whether its first letter is upper case), a punctuation mark, one white
\* space character, or a run of digits with its value and width.
W(s) == [s |-> s, v |-> 0, w |-> 0, up |-> FALSE]

Cap(s) == [s |-> s, v |-> 0, w |-> 0, up |-> TRUE]

Num(v, w) == [s |-> "0-9", v |-> v, w |-> w, up |-> FALSE]

Sp == W(" ")

Colon == W(":")

Dot == W(".")

\* str.lower()
lower(str) == [i \in DOMAIN str |-> [str[i] EXCEPT !.up = FALSE]]

\* str.strip(): the white space at both ends goes
RECURSIVE strip(_)
strip(str) ==
    IF str = <<>> THEN str
    ELSE IF Head(str) = Sp THEN strip(Tail(str))
    ELSE IF str[Len(str)] = Sp THEN strip(SubSeq(str, 1, Len(str) - 1))
    ELSE str

\* re.sub(r'\s+', ' ', text): a run of white space becomes one space
RECURSIVE CollapseSpaces(_)
CollapseSpaces(str) ==
    IF Len(str) < 2 THEN str
    ELSE IF str[1] = Sp /\ str[2] = Sp THEN CollapseSpaces(Tail(str))
    ELSE <<Head(str)>> \o CollapseSpaces(Tail(str))

\* the pieces lit stand in str from position i on
LitAt(lit, str, i, icase) ==
    /\ i + Len(lit) - 1 <= Len(str)
    /\ \A k \in 1..Len(lit) :
           /\ str[i + k - 1].s = lit[k]
           /\ icase \/ ~str[i + k - 1].up

\* the first position from i on that holds no white space
RECURSIVE SkipSpaces(_, _)
SkipSpaces(str, i) ==
    IF i <= Len(str) /\ str[i].s = " " THEN SkipSpaces(str, i + 1) ELSE i

\* the elements of a regular expression
Lit(s) == [k |-> "lit", lit |-> <<s>>]

Spaces == [k |-> "ws"]

\* \d{lo,hi}
Digits(lo, hi) == [k |-> "num", lo |-> lo, hi |-> hi]

\* \d+ (no upper limit is written as 0)
DigitRun == Digits(1, 0)

Alt(alts) == [k |-> "alt", alts |-> alts]

Opt(sub) == [k |-> "opt", sub |-> sub]

NoMatch == [ok |-> FALSE, start |-> 0, end |-> 0, nums |-> <<>>, alt |-> <<>>]

\* the match of the pattern pat that begins at position i of str: where it
\* ends, the numbers of its digit runs and the alternative it took.
\* Quantifiers are greedy, alternatives are tried in their order
RECURSIVE MatchAt(_, _, _, _)
MatchAt(pat, str, i, icase) ==
    IF pat = <<>>
    THEN [ok |-> TRUE, start |-> i, end |-> i - 1, nums |-> <<>>, alt |-> <<>>]
    ELSE
    LET e == Head(pat)
        rest == Tail(pat)
    IN CASE e.k = "lit" ->
              IF LitAt(e.lit, str, i, icase)
              THEN MatchAt(rest, str, i + Len(e.lit), icase) ELSE NoMatch
         [] e.k = "ws" ->
              IF i <= Len(str) /\ str[i].s = " "
              THEN MatchAt(rest, str, SkipSpaces(str, i), icase) ELSE NoMatch
         [] e.k = "num" ->
              IF /\ i <= Len(str)
                 /\ str[i].s = "0-9"
                 /\ str[i].w >= e.lo
                 /\ (e.hi = 0 \/ str[i].w <= e.hi)
              THEN LET m == MatchAt(rest, str, i + 1, icase)
                   IN [m EXCEPT !.nums = <<str[i].v>> \o @]
              ELSE NoMatch
         [] e.k = "alt" ->
              LET fits == { a \in DOMAIN e.alts :
                              /\ LitAt(e.alts[a], str, i, icase)
                              /\ MatchAt(rest, str, i + Len(e.alts[a]),
                                         icase).ok }
              IN IF fits = {} THEN NoMatch
                 ELSE LET a == CHOOSE x \in fits : \A y \in fits : x <= y
                          m == MatchAt(rest, str, i + Len(e.alts[a]), icase)
                      IN [m EXCEPT !.alt = e.alts[a]]
         [] e.k = "opt" ->
              LET with == MatchAt(e.sub \o rest, str, i, icase)
              IN IF with.ok THEN with ELSE MatchAt(rest, str, i, icase)

\* the leftmost of the matches found, NoMatch when there is none
Leftmost(found) ==
    IF found = {} THEN NoMatch
    ELSE CHOOSE m \in found : \A o \in found : m.start <= o.start

\* re.search(pattern, text): the leftmost match
Search(pat, str, icase) ==
    Leftmost({ m \in { [MatchAt(pat, str, i, icase) EXCEPT !.start = i] :
                         i \in 1..Len(str) } : m.ok })

\* the substring test `lit in text`
Contains(lit, str) == \E i \in 1..Len(str) : LitAt(lit, str, i, FALSE)

\* str.replace(old, ''): every occurrence of old goes, from left to right
RECURSIVE Remove(_, _)
Remove(str, old) ==
    IF str = <<>> \/ old = <<>> THEN str
    ELSE IF /\ Len(old) <= Len(str)
            /\ SubSeq(str, 1, Len(old)) = old
         THEN Remove(SubSeq(str, Len(old) + 1, Len(str)), old)
         ELSE <<Head(str)>> \o Remove(Tail(str), old)

\* a datetime is its wall-clock reading in the parser's zone
\* (Europe/Moscow), in seconds since 1970-01-01 00:00:00
SecondsPerMinute == 60

MinutesPerHour == 60

DaysPerWeek == 7

\* the hour a date without a clock time stands for
DefaultHour == 9

SecondsPerHour == MinutesPerHour * SecondsPerMinute

SecondsPerDay == HoursPerDay * SecondsPerHour

\* what a parser call returns: a datetime, None, or a raised ValueError
Resolved(t) == [kind |-> "time", t |-> t, remainder |-> <<>>]

NotFound == [kind |-> "none", t |-> 0, remainder |-> <<>>]

ValueError == [kind |-> "error", t |-> 0, remainder |-> <<>>]

\* datetime.date(), counted in days
DateOf(t) == t \div SecondsPerDay

\* datetime.hour and datetime.minute
HourOf(t) == (t % SecondsPerDay) \div SecondsPerHour

MinuteOf(t) == (t % SecondsPerHour) \div SecondsPerMinute

\* datetime.year
YearOf(t) == CivilFromDays(DateOf(t)).y

\* datetime.weekday(): Monday is 0 (1970-01-01 was a Thursday)
weekday(t) == (DateOf(t) + 3) % DaysPerWeek

\* datetime.combine(date, time(hour, minute))
combine(date, hour, minute) ==
    date * SecondsPerDay + hour * SecondsPerHour + minute * SecondsPerMinute

\* datetime(year, month, day, hour, minute), localized: ValueError when a
\* component is out of range
datetime(year, month, day, hour, minute) ==
    IF /\ year \in 1..9999
       /\ month \in 1..12
       /\ day >= 1
       /\ day <= DaysInMonth(year, month)
       /\ hour \in 0..(HoursPerDay - 1)
       /\ minute \in 0..(MinutesPerHour - 1)
    THEN Resolved(combine(DaysFromCivil(year, month, day), hour, minute))
    ELSE ValueError

\* the unit alternation of the relative patterns, in the order written
UnitWords ==
    << <<"minut">>, <<"minut", "u">>, <<"minut", "y">>,
       <<"chas">>, <<"chas", "a">>, <<"chas", "ov">>,
       <<"den'">>, <<"dnya">>, <<"dney">>,
       <<"nedelyu">>, <<"nedeli">>, <<"nedel'">> >>

\* TimeParser._parse_relative_units
_parse_relative_units(match, base_time) ==
    LET amount == match.nums[1]
        unit == match.alt
    IN CASE unit \in {<<"minut">>, <<"minut", "u">>, <<"minut", "y">>} ->
                base_time + amount * SecondsPerMinute
         [] unit \in {<<"chas">>, <<"chas", "a">>, <<"chas", "ov">>} ->
                base_time + amount * SecondsPerHour
         [] unit \in {<<"den'">>, <<"dnya">>, <<"dney">>} ->
                base_time + amount * SecondsPerDay
         [] unit \in {<<"nedelyu">>, <<"nedeli">>, <<"nedel'">>} ->
                base_time + amount * DaysPerWeek * SecondsPerDay
         [] OTHER -> base_time

\* the patterns of _parse_relative_time with their handlers, in their order
RelativePatterns ==
    << [pat |-> <<Lit("cherez"), Spaces, DigitRun, Spaces, Alt(UnitWords)>>,
        handler |-> "units"],
       [pat |-> <<DigitRun, Spaces, Alt(UnitWords)>>, handler |-> "units"],
       [pat |-> <<Lit("zavtra")>>, handler |-> "tomorrow"],
       [pat |-> <<Lit("posle"), Lit("zavtra")>>, handler |-> "dayafter"],
       [pat |-> <<Lit("segodnya")>>, handler |-> "today"] >>

\* the first of the patterns found, by its place p in the list
FirstFound(found) ==
    IF found = {} THEN [p |-> 0, match |-> NoMatch]
    ELSE CHOOSE f \in found : \A o \in found : f.p <= o.p

\* mutant of RelativeHandler: "tomorrow" is set to nine o'clock as "today"
\* is
RelativeHandler_TomorrowAtNine(first, base_time) ==
    IF first.p = 0 THEN NotFound
    ELSE LET handler == RelativePatterns[first.p].handler
         IN CASE handler = "units" ->
                     Resolved(_parse_relative_units(first.match, base_time))
              [] handler = "tomorrow" ->
                     Resolved(combine(DateOf(base_time) + 1, DefaultHour, 0))
              [] handler = "dayafter" ->
                     Resolved(base_time + 2 * SecondsPerDay)
              [] handler = "today" ->
                     Resolved(combine(DateOf(base_time), DefaultHour, 0))

\* the handlers of the relative patterns
RelativeHandler(first, base_time) ==
    IF first.p = 0 THEN NotFound
    ELSE LET handler == RelativePatterns[first.p].handler
         IN CASE handler = "units" ->
                     Resolved(_parse_relative_units(first.match, base_time))
              [] handler = "tomorrow" ->
                     Resolved(base_time + SecondsPerDay)
              [] handler = "dayafter" ->
                     Resolved(base_time + 2 * SecondsPerDay)
              [] handler = "today" ->
                     Resolved(combine(DateOf(base_time), DefaultHour, 0))

\* TimeParser._parse_relative_time: the handler of the first pattern, in the
\* order of the list, that is found in the text
_parse_relative_time(str, base_time) ==
    RelativeHandler(
        FirstFound({ f \in { [p |-> p,
                              match |-> Search(RelativePatterns[p].pat, str,
                                               FALSE)] :
                              p \in DOMAIN RelativePatterns } : f.match.ok }),
        base_time)

\* (?:v\s+)? between a date and a clock time
OptionalV == Opt(<<Lit("v"), Spaces>>)

\* the patterns of _parse_absolute_time, in their order
AbsolutePatterns ==
    << <<Digits(1, 2), Lit("."), Digits(1, 2), Lit("."), Digits(4, 4),
         Spaces, OptionalV, Digits(1, 2), Lit(":"), Digits(2, 2)>>,
       <<Digits(1, 2), Lit("."), Digits(1, 2),
         Spaces, OptionalV, Digits(1, 2), Lit(":"), Digits(2, 2)>>,
       <<Digits(1, 2), Lit(":"), Digits(2, 2)>>,
       <<Digits(1, 2), Lit("."), Digits(1, 2), Lit("."), Digits(4, 4)>>,
       <<Digits(1, 2), Lit("."), Digits(1, 2)>> >>

\* ':' in text
HasColon(str) == \E i \in 1..Len(str) : str[i].s = ":"

\* mutant of ClockBranch: a clock time equal to the base time's stays on
\* the base date
ClockBranch_KeepsEqual(hour, minute, base_time) ==
    LET target_date ==
            IF \/ hour < HourOf(base_time)
               \/ hour = HourOf(base_time) /\ minute < MinuteOf(base_time)
            THEN DateOf(base_time) + 1 ELSE DateOf(base_time)
    IN IF /\ hour \in 0..(HoursPerDay - 1)
          /\ minute \in 0..(MinutesPerHour - 1)
       THEN Resolved(combine(target_date, hour, minute))
       ELSE ValueError

\* the HH:MM branch: today, or tomorrow when that clock time is not after
\* the base time's; time.replace raises ValueError on a bad hour or minute
ClockBranch(hour, minute, base_time) ==
    LET target_date ==
            IF \/ hour < HourOf(base_time)
               \/ hour = HourOf(base_time) /\ minute <= MinuteOf(base_time)
            THEN DateOf(base_time) + 1 ELSE DateOf(base_time)
    IN IF /\ hour \in 0..(HoursPerDay - 1)
          /\ minute \in 0..(MinutesPerHour - 1)
       THEN Resolved(combine(target_date, hour, minute))
       ELSE ValueError

\* mutant of DateBranch: a date that is not after the base time moves to
\* the next year
DateBranch_RollsWhenEqual(day, month, base_time) ==
    LET year == YearOf(base_time)
        target_date == datetime(year, month, day, DefaultHour, 0)
    IN IF target_date.kind = "time" /\ target_date.t <= base_time
       THEN datetime(year + 1, month, day, DefaultHour, 0)
       ELSE target_date

\* the DD.MM branch: this year at nine, or next year when that is before
\* the base time
DateBranch(day, month, base_time) ==
    LET year == YearOf(base_time)
        target_date == datetime(year, month, day, DefaultHour, 0)
    IN IF target_date.kind = "time" /\ target_date.t < base_time
       THEN datetime(year + 1, month, day, DefaultHour, 0)
       ELSE target_date

\* the branch of _parse_absolute_time, chosen by the number of groups
AbsoluteBranch(groups, str, base_time) ==
    CASE Len(groups) = 0 -> NotFound
      [] Len(groups) = 5 ->
             datetime(groups[3], groups[2], groups[1], groups[4], groups[5])
      [] Len(groups) = 4 ->
             datetime(YearOf(base_time), groups[2], groups[1],
                      groups[3], groups[4])
      [] Len(groups) = 2 /\ HasColon(str) ->
             ClockBranch(groups[1], groups[2], base_time)
      [] Len(groups) = 3 ->
             datetime(groups[3], groups[2], groups[1], DefaultHour, 0)
      [] OTHER -> DateBranch(groups[1], groups[2], base_time)

\* TimeParser._parse_absolute_time: the first pattern, in the order of the
\* list, that is found in the text
_parse_absolute_time(str, base_time) ==
    AbsoluteBranch(
        FirstFound({ f \in { [p |-> p,
                              match |-> Search(AbsolutePatterns[p], str,
                                               FALSE)] :
                              p \in DOMAIN AbsolutePatterns } :
                     f.match.ok }).match.nums,
        str, base_time)

\* the keys of the weekdays dict of _parse_weekday, in their order; the
\* position of a name, less one, is its weekday number
WeekdayNames ==
    << <<"ponedel'nik">>, <<"vtornik">>, <<"sred", "a">>, <<"chetverg">>,
       <<"pyatnic", "a">>, <<"subbot", "a">>, <<"voskresen'e">> >>

\* the date of the weekday numbered n - 1, after the base date, at nine
WeekdayBranch(n, base_time) ==
    LET diff == (n - 1) - weekday(base_time)
    IN Resolved(combine(DateOf(base_time)
                            + (IF diff <= 0 THEN diff + DaysPerWeek ELSE diff),
                        DefaultHour, 0))

\* the first name of the weekdays dict among those found
FirstName(found, base_time) ==
    IF found = {} THEN NotFound
    ELSE WeekdayBranch(CHOOSE x \in found : \A y \in found : x <= y,
                       base_time)

\* TimeParser._parse_weekday: the first name of the dict that the text
\* contains
_parse_weekday(str, base_time) ==
    FirstName({ n \in DOMAIN WeekdayNames : Contains(WeekdayNames[n], str) },
              base_time)

\* `if relative_time: return relative_time`, and so on: the first parser
\* that does not return None decides
FirstResolved(first, second) == IF first.kind # "none" THEN first ELSE second

\* parse_time after text.lower().strip() and the collapse of white space
ParseNormalized(norm, base_time) ==
    FirstResolved(_parse_relative_time(norm, base_time),
        FirstResolved(_parse_absolute_time(norm, base_time),
                      _parse_weekday(norm, base_time)))

\* TimeParser.parse_time(text, base_time)
parse_time(str, base_time) ==
    ParseNormalized(CollapseSpaces(strip(lower(str))), base_time)

\* the time_patterns of parse_time_input, in their order
InputPatterns ==
    << <<Digits(1, 2), Lit(":"), Digits(2, 2)>>,
       <<Digits(1, 2), Lit("."), Digits(1, 2),
         Opt(<<Lit("."), Digits(4, 4)>>)>>,
       <<Lit("cherez"), Spaces, DigitRun, Spaces,
         Alt(<< <<"minut">>, <<"chas">>, <<"den'">>, <<"nedelyu">> >>)>>,
       <<Alt(<< <<"zavtra">>, <<"posle", "zavtra">>, <<"segodnya">> >>)>>,
       <<Lit("v"), Spaces,
         Alt(<< <<"ponedel'nik">>, <<"vtornik">>, <<"sred", "u">>,
                <<"chetverg">>, <<"pyatnic", "u">>, <<"subbot", "u">>,
                <<"voskresen'e">> >>)>> >>

\* the return of parse_time_input when parse_time resolved time_text
InputResult(parsed_time, str, time_text) ==
    IF parsed_time.kind = "error" THEN ValueError
    ELSE [kind |-> "time", t |-> parsed_time.t,
          remainder |-> strip(Remove(str, time_text))]

\* the matches of the time_patterns in the text, each with what parse_time
\* makes of match.group(1)
InputMatches(str, clock) ==
    { [p |-> f.p, match |-> f.match,
       parsed_time |-> parse_time(SubSeq(str, f.match.start, f.match.end),
                                  clock)] :
      f \in { g \in { [p |-> p,
                        match |-> Search(InputPatterns[p], str, TRUE)] :
                        p \in DOMAIN InputPatterns } : g.match.ok } }

\* the first pattern, in the order of the list, that matches and whose
\* match parse_time does not return None for
InputFirst(found, str) ==
    IF found = {} THEN [kind |-> "none", t |-> 0, remainder |-> str]
    ELSE LET f == CHOOSE x \in found : \A o \in found : x.p <= o.p
         IN InputResult(f.parsed_time, str,
                        SubSeq(str, f.match.start, f.match.end))

\* mutant of parse_time_input: the text is trimmed when nothing is found
parse_time_input_Trims(str, clock) ==
    InputFirst({ f \in InputMatches(str, clock) :
                   f.parsed_time.kind # "none" }, strip(str))

\* parse_time_input(text), with the clock parse_time reads as base_time
parse_time_input(str, clock) ==
    InputFirst({ f \in InputMatches(str, clock) :
                   f.parsed_time.kind # "none" }, str)

\* ---------------------------------------------------- the texts parsed
\* a word written as its pieces
Word(lit) == [i \in DOMAIN lit |-> W(lit[i])]

\* the amounts N of "cherez N <unit>"
Amounts == 0..MaxAmount

Cherez(n, unit) == <<W("cherez"), Sp, Num(n, 1), Sp>> \o Word(unit)

Clock(h, m) == <<Num(h, 2), Colon, Num(m, 2)>>

Date(d, mo) == <<Num(d, 2), Dot, Num(mo, 2)>>

DateYear(d, mo, y) == Date(d, mo) \o <<Dot, Num(y, 4)>>

\* "cherez N <unit>" for every amount and every form of every unit word
OffsetTexts ==
    { Cherez(n, UnitWords[u]) : n \in Amounts, u \in DOMAIN UnitWords }

\* today, tomorrow, the day after tomorrow
NamedDayTexts ==
    { <<W("segodnya")>>, <<W("zavtra")>>, <<W("posle"), W("zavtra")>>,
      <<Cap("zavtra")>> }

\* clock times alone (25 is no hour)
ClockTexts == { Clock(h, m) : h \in {0, 9, 10, 15, 23, 25}, m \in {0, 30} }

\* dates without a year (29.02 and 31.04 are no dates of the years of
\* References)
DateTexts ==
    { Date(31, 1), Date(29, 2), Date(31, 12), Date(1, 1), Date(30, 12),
      Date(31, 4) }

\* dates with a year
DateYearTexts == { DateYear(25, 12, 2024), DateYear(1, 3, 2025) }

\* dates with a clock time, with and without the word "v"
DateTimeTexts ==
    { DateYear(25, 12, 2024) \o <<Sp>> \o Clock(10, 0),
      DateYear(1, 3, 2025) \o <<Sp, W("v"), Sp>> \o Clock(15, 30),
      Date(25, 12) \o <<Sp>> \o Clock(10, 0),
      Date(31, 12) \o <<Sp, W("v"), Sp>> \o Clock(23, 30) }

\* numeric expressions with a component that is out of range
InvalidTexts ==
    { Clock(10, 75), Date(15, 13), Date(32, 1), DateYear(31, 2, 2025),
      Date(32, 1) \o <<Sp>> \o Clock(10, 0),
      DateYear(25, 12, 2024) \o <<Sp, W("v"), Sp>> \o Clock(25, 0),
      DateYear(15, 13, 2024) \o <<Sp>> \o Clock(10, 0) }

\* the seven weekdays as a sentence names them ("v sredu", "vo vtornik")
WeekdayPhrases ==
    << <<W("v"), Sp, W("ponedel'nik")>>,
       <<W("vo"), Sp, W("vtornik")>>,
       <<W("v"), Sp, W("sred"), W("u")>>,
       <<W("v"), Sp, W("chetverg")>>,
       <<W("v"), Sp, W("pyatnic"), W("u")>>,
       <<W("v"), Sp, W("subbot"), W("u")>>,
       <<W("v"), Sp, W("voskresen'e")>> >>

\* the weekday phrases, and the names in the form of the weekdays dict
WeekdayTexts ==
    { WeekdayPhrases[n] : n \in DOMAIN WeekdayPhrases }
        \cup { Word(WeekdayNames[n]) : n \in DOMAIN WeekdayNames }
        \cup { <<W("v"), Sp, W("vtornik")>> }

\* texts without a time expression
PlainTexts ==
    { <<W("kupit'"), Sp, W("moloko")>>,
      <<Sp, Cap("kupit'"), Sp, Sp, W("moloko"), Sp>>,
      <<W("pozvonit'"), Sp>>,
      <<W("zametka"), Colon, Sp, W("kupit'"), Sp, W("moloko"), Dot>>,
      <<W("v"), Sp, W("magazin")>> }

\* one fragment of each class of time expression
ClassSample ==
    [offset |-> Cherez(2, <<"chas", "a">>),
     named |-> <<W("zavtra")>>,
     absolute |-> Clock(15, 30),
     weekday |-> WeekdayPhrases[1]]

\* the classes in the order of their priority
Classes == <<"offset", "named", "absolute", "weekday">>

\* texts with fragments of two classes, in both orders
PairTexts ==
    { ClassSample[Classes[x[1]]] \o <<Sp>> \o ClassSample[Classes[x[2]]] :
        x \in { y \in (DOMAIN Classes) \X (DOMAIN Classes) : y[1] # y[2] } }

\* a time expression inside a sentence
SentenceTexts ==
    { <<W("zavtra"), Sp, W("v"), Sp>> \o Clock(15, 30),
      <<W("kupit'"), Sp, W("moloko"), Sp, W("zavtra")>>,
      <<W("zametka"), Colon, Sp>> \o Date(10, 12),
      Clock(9, 0) \o <<Sp, W("vstrecha"), Sp>> \o Clock(9, 0) }

Texts ==
    OffsetTexts \cup NamedDayTexts \cup ClockTexts \cup DateTexts
        \cup DateYearTexts \cup DateTimeTexts \cup WeekdayTexts
        \cup PlainTexts \cup PairTexts \cup SentenceTexts \cup InvalidTexts

\* the reference instants: the seven days from Saturday 2024-12-28 to
\* Friday 2025-01-03, at 09:00:00, 10:00:30 and 15:30:00
References ==
    { combine(DaysFromCivil(2024, 12, 28) + d, h[1], h[2]) + h[3] :
        d \in 0..(DaysPerWeek - 1),
        h \in { <<9, 0, 0>>, <<10, 0, 30>>, <<15, 30, 0>> } }

\* the scheduler is not started
SchedulerIdle ==
    /\ boot = "main"
    /\ tz = 0
    /\ app = "boot"
    /\ nsched = 0
    /\ now = 0
    /\ store = [i \in Ids |-> CreatedRows[1]]
    /\ pc = "off"
    /\ batch = <<>>
    /\ tickNow = 0
    /\ idx = 0
    /\ attempts = [i \in Ids |-> 0]
    /\ outcome = [i \in Ids |-> "none"]
    /\ slept = 0
    /\ fails = 0
    /\ failedPrev = {}

\* a handler is about to parse a text at some instant
ParserInit ==
    /\ SchedulerIdle
    /\ CalculatorIdle
    /\ text \in Texts
    /\ reference \in References
    /\ called = {}
    /\ parsed = Pending
    /\ parsedInput = Pending
    /\ data = NoData
    /\ moscowNow = reference
    /\ repeated = [parsed |-> Pending, parsedInput |-> Pending]

\* TimeParser().parse_time(text, reference) returns or raises
CallParseTime ==
    /\ text # <<>>
    /\ "parse_time" \notin called
    /\ parsed' = parse_time(text, reference)
    /\ called' = called \cup {"parse_time"}
    /\ UNCHANGED <<svars, cvars, text, reference, parsedInput, data, moscowNow, repeated>>

\* parse_time_input(text) returns or raises; it is called at the instant
\* reference, which is what the clock reads
CallParseTimeInput ==
    /\ text # <<>>
    /\ "parse_time_input" \notin called
    /\ parsedInput' = parse_time_input(text, moscowNow)
    /\ called' = called \cup {"parse_time_input"}
    /\ UNCHANGED <<svars, cvars, text, reference, parsed, data, moscowNow, repeated>>

\* what process_reminder_time_custom does with the return of
\* parse_time_input: `if not reminder_time: ... return`, else
\* state.update_data(reminder_time=reminder_time); an exception leaves the
\* handler before either
TimeData(result, d) ==
    IF result.kind = "time"
    THEN [d EXCEPT !.reminder_time =
                       <<TimeText(result.t \div SecondsPerHour, TRUE)>>]
    ELSE d

\* handlers/reminders.process_reminder_time_custom on a message with the
\* text, the clock reading reference
process_reminder_time_custom ==
    /\ text # <<>>
    /\ "process_reminder_time_custom" \notin called
    /\ data' = TimeData(parse_time_input(text, moscowNow), data)
    /\ called' = called \cup {"process_reminder_time_custom"}
    /\ UNCHANGED <<svars, cvars, text, reference, parsed, parsedInput, moscowNow,
                   repeated>>

\* the time that passes before the entry points are called again: a minute,
\* a day
Delays == {SecondsPerMinute, SecondsPerDay}

\* the entry points have returned and time passes
Wait(delay) ==
    /\ called = {"parse_time", "parse_time_input",
                 "process_reminder_time_custom"}
    /\ moscowNow = reference
    /\ moscowNow' = moscowNow + delay
    /\ UNCHANGED <<svars, cvars, text, reference, called, parsed, parsedInput, data,
                   repeated>>

\* TimeParser().parse_time(text, reference) is called again, with the same
\* base_time
RepeatParseTime ==
    /\ moscowNow # reference
    /\ repeated.parsed = Pending
    /\ repeated' = [repeated EXCEPT !.parsed = parse_time(text, reference)]
    /\ UNCHANGED <<svars, cvars, text, reference, called, parsed, parsedInput, data,
                   moscowNow>>

\* parse_time_input(text) is called again: base_time is None and parse_time
\* reads the clock
RepeatParseTimeInput ==
    /\ moscowNow # reference
    /\ repeated.parsedInput = Pending
    /\ repeated' = [repeated EXCEPT
                        !.parsedInput = parse_time_input(text, moscowNow)]
    /\ UNCHANGED <<svars, cvars, text, reference, called, parsed, parsedInput, data,
                   moscowNow>>

ParserNext ==
    \/ CallParseTime
    \/ CallParseTimeInput
    \/ process_reminder_time_custom
    \/ \E delay \in Delays : Wait(delay)
    \/ RepeatParseTime
    \/ RepeatParseTimeInput

ParserSpec == ParserInit /\ [][ParserNext]_vars

\* ------------------------------------------------- overdue repeating rows
\* repeating reminders that fell due while no scheduler ran: two days and an
\* hour ago (two intervals of a daily one) or two hours ago, written by
\* bot_modular_old.py (strftime text, interval 1) or by
\* handlers/reminders.py (interval 0, a preset's naive time or a typed
\* zone-aware one)
OverdueRows ==
    << add_reminder(strftime(-2 * HoursPerDay - 1), "daily", 1),
       add_reminder(adapt_datetime(-2 * HoursPerDay - 1, FALSE), "daily", 0),
       add_reminder(adapt_datetime(-2, TRUE), "monthly", 0),
       add_reminder(strftime(-2), "weekly", 1) >>

\* every choice of overdue rows, numbered in the order of the sample
OverdueStores ==
    { [i \in Ids |-> OverdueRows[f[i]]] :
        f \in { g \in [Ids -> DOMAIN OverdueRows] :
                   \A i, j \in Ids : i < j => g[i] <= g[j] } }

\* bot_modular_old.main starts on a table of overdue repeating reminders
RearmInit ==
    /\ boot = "bot_modular_old"
    /\ tz \in ServerOffsets
    /\ app = "boot"
    /\ nsched = 0
    /\ now = 0
    /\ store \in OverdueStores
    /\ pc = "off"
    /\ batch = <<>>
    /\ tickNow = 0
    /\ idx = 0
    /\ attempts = [i \in Ids |-> 0]
    /\ outcome = [i \in Ids |-> "none"]
    /\ slept = 0
    /\ fails = 0
    /\ failedPrev = {}
    /\ ParserIdle
    /\ CalculatorIdle

RearmSpec == RearmInit /\ [][Next]_vars

\* ---------------------------------------------------- reminder creation
\* repeat_interval of Database.add_reminder when the caller gives none
DefaultRepeatInterval == 0

\* the buttons of Keyboards.repeat_options: callback data "repeat_<type>"
RepeatOptions == {"none", "daily", "weekly", "monthly"}

\* buttons of Keyboards.time_presets and the hours they add to
\* datetime.now(): "time_1hour", "time_tomorrow"
PresetHours == [1hour |-> 1, tomorrow |-> HoursPerDay]

\* handlers/reminders.process_reminder_text
process_reminder_text ==
    /\ app = "polling"
    /\ data.reminder_text = <<>>
    /\ data' = [data EXCEPT !.reminder_text = <<"message.text">>]
    /\ UNCHANGED <<svars, cvars, text, reference, called, parsed, parsedInput,
                   moscowNow, repeated>>

\* handlers/reminders.process_reminder_time_preset: a naive
\* datetime.now() + timedelta
process_reminder_time_preset(preset) ==
    /\ app = "polling"
    /\ data' = [data EXCEPT !.reminder_time =
                    <<adapt_datetime(LocalNow + PresetHours[preset], FALSE)>>]
    /\ UNCHANGED <<svars, cvars, text, reference, called, parsed, parsedInput,
                   moscowNow, repeated>>

\* handlers/reminders.process_reminder_repeat
process_reminder_repeat(repeat_type) ==
    /\ app = "polling"
    /\ data' = [data EXCEPT !.reminder_repeat = <<repeat_type>>]
    /\ UNCHANGED <<svars, cvars, text, reference, called, parsed, parsedInput,
                   moscowNow, repeated>>

\* data.get("reminder_repeat", "none")
RepeatOf(d) ==
    IF d.reminder_repeat = <<>> THEN "none" ELSE d.reminder_repeat[1]

\* INSERT INTO reminders: the row gets the next id (AUTOINCREMENT)
Insert(s, row) ==
    [i \in DOMAIN s \cup {Cardinality(DOMAIN s) + 1} |->
        IF i \in DOMAIN s THEN s[i] ELSE row]

\* handlers/reminders.finish_reminder_creation with text and time set:
\* db.add_reminder(..., repeat_type=reminder_repeat), then state.clear()
finish_reminder_creation ==
    /\ app = "polling"
    /\ data.reminder_text # <<>>
    /\ data.reminder_time # <<>>
    /\ Cardinality(DOMAIN store) < MaxReminders
    /\ store' = Insert(store, add_reminder(data.reminder_time[1],
                                           RepeatOf(data),
                                           DefaultRepeatInterval))
    /\ data' = NoData
    /\ UNCHANGED <<cvars, boot, tz, app, nsched, now, pc, batch, tickNow, idx,
                   attempts, outcome, slept, fails, failedPrev, text,
                   reference, called, parsed, parsedInput, moscowNow,
                   repeated>>

CreateNext ==
    \/ process_reminder_text
    \/ \E preset \in DOMAIN PresetHours : process_reminder_time_preset(preset)
    \/ \E option \in RepeatOptions : process_reminder_repeat(option)
    \/ finish_reminder_creation

\* the live bot (bot_modular.main, whose dispatcher includes the router of
\* handlers/reminders.py) starts on an empty reminders table
CreateInit ==
    /\ boot = "bot_modular"
    /\ tz \in ServerOffsets
    /\ app = "boot"
    /\ nsched = 0
    /\ now = 0
    /\ store = [i \in {} |-> 0]
    /\ pc = "off"
    /\ batch = <<>>
    /\ tickNow = 0
    /\ idx = 0
    /\ attempts = [i \in Ids |-> 0]
    /\ outcome = [i \in Ids |-> "none"]
    /\ slept = 0
    /\ fails = 0
    /\ failedPrev = {}
    /\ ParserIdle
    /\ CalculatorIdle

CreateSpec == CreateInit /\ [][Next \/ CreateNext]_vars

\* -------------------------------------------------- recurrence calculator
\* the hour h of the civil date y-m-d, in hours since 1970-01-01 00:00
HourOfDate(y, m, d, h) == DaysFromCivil(y, m, d) * HoursPerDay + h

\* the names calculate_next_reminder_time knows, "none", and a name it does
\* not know
RepeatTypes ==
    { "hourly", "hours", "daily", "day", "days", "weekly", "week", "weeks",
      "monthly", "month", "months", "yearly", "year", "years", "annually",
      "none", "fortnightly" }

\* the intervals of the calls, with 0 (the column's default) and a
\* negative one
Intervals == -1..MaxInterval

\* current_time of the first call: ends of months in a leap year and in the
\* years around it, and days every month has
Starts ==
    { HourOfDate(2023, 1, 31, 10), HourOfDate(2024, 1, 31, 10),
      HourOfDate(2024, 2, 29, 9), HourOfDate(2023, 2, 28, 9),
      HourOfDate(2023, 3, 31, 0), HourOfDate(2023, 12, 31, 23),
      HourOfDate(2023, 1, 15, 0), HourOfDate(2023, 8, 30, 18) }

\* a caller is about to compute the occurrences of a repeating reminder
CalculatorInit ==
    /\ SchedulerIdle
    /\ ParserIdle
    /\ recurrence \in [repeat_type : RepeatTypes, repeat_interval : Intervals]
    /\ \E t \in Starts : occurrences = <<t>>

\* calculate_next_reminder_time(current_time, repeat_type, repeat_interval)
\* returns, current_time being the last occurrence
CallCalculate ==
    /\ occurrences # <<>>
    /\ Len(occurrences) <= MaxOccurrences
    /\ occurrences' =
           Append(occurrences,
                  calculate_next_reminder_time(
                      occurrences[Len(occurrences)], recurrence.repeat_type,
                      recurrence.repeat_interval))
    /\ UNCHANGED <<svars, pvars, recurrence>>

CalculatorSpec == CalculatorInit /\ [][CallCalculate]_vars

\* ------------------------------------------------------------------ claims
BatchIds == { batch[i].id : i \in 1..Len(batch) }

\* the fetched row of reminder r
Row(r) == batch[CHOOSE i \in 1..Len(batch) : batch[i].id = r]

\* the columns of r as fetched
FetchedColumns(r) ==
    [reminder_time |-> Row(r).reminder_time, is_active |-> Row(r).is_active,
     repeat_type |-> Row(r).repeat_type,
     repeat_interval |-> Row(r).repeat_interval]

\* the loop has gone through the whole batch and sleeps
TickDone == pc = "sleep"

\* this step starts a dispatch attempt for r
AttemptStart(r) == outcome'[r] = "pending" /\ outcome[r] # "pending"

\* this step is the failure of r's send
SendFailed(r) == outcome[r] = "pending" /\ outcome'[r] = "fail"

NextOccurrence(T, kind, interval) ==
    CASE kind = "daily" -> T + interval * HoursPerDay
      [] kind = "weekly" -> T + interval * 7 * HoursPerDay
      [] kind = "monthly" -> AddMonths(T, interval)
      [] kind = "yearly" -> AddMonths(T, 12 * interval)

\* C2 as claimed: at the end of a tick in which a due repeating reminder
\* scheduled for T was delivered (and its update applied), its stored
\* reminder_time is next_occurrence(T, kind, interval) and it is active.
C2_AsClaimed ==
    TickDone =>
        \A r \in BatchIds :
            (/\ Row(r).repeat_type # "none"
             /\ Row(r).repeat_interval >= 1
             /\ outcome[r] = "done")
                => /\ store[r].is_active
                   /\ store[r].reminder_time.wall =
                          NextOccurrence(Row(r).reminder_time.wall,
                                         Row(r).repeat_type,
                                         Row(r).repeat_interval)

\* C3: a failed send changes no stored field of any reminder; the reminders
\* whose send failed in one tick are all returned by the next fetch, and by
\* the end of that tick a dispatch attempt has been made for each of them.
C3_FailureRetried ==
    /\ [][(\E r \in Ids : SendFailed(r)) => store' = store]_vars
    /\ [](failedPrev \subseteq BatchIds)
    /\ [](TickDone => \A r \in failedPrev : attempts[r] = 1)

C3_Witness ==
    /\ TickDone
    /\ \E r \in failedPrev : attempts[r] = 1 /\ store[r] = FetchedColumns(r)

\* C4 as claimed: while a scheduler runs, an active reminder whose time has
\* passed (on the UTC clock the store compares with and on the server's
\* local clock) is eventually delivered, unless the process exits first.
C4_AsClaimed ==
    \A r \in Ids :
        (/\ app = "polling"
         /\ boot # "main"
         /\ store[r].is_active
         /\ store[r].reminder_time.wall <= now
         /\ store[r].reminder_time.wall <= LocalNow)
            ~> (outcome[r] \in {"sent", "done"} \/ app = "exited")

\* C5: the scheduler changes a stored reminder only in a step that follows
\* the return of that reminder's send in the same tick.
C5_WriteAfterDispatch ==
    [][\A r \in Ids :
          store'[r] # store[r]
              => /\ pc = "update"
                 /\ batch[idx].id = r
                 /\ attempts[r] = 1
                 /\ outcome[r] = "sent"]_vars

C5_Witness ==
    \E r \in Ids :
        /\ outcome[r] = "done"
        /\ attempts[r] = 1
        /\ store[r] # FetchedColumns(r)

\* C6: at the end of a tick, a dispatch attempt has been made for every
\* fetched row that the loop sends (in bot_modular.py: a naive time at or
\* before the local clock), whatever failed for the other rows.
C6_BatchNotAborted ==
    TickDone =>
        \A i \in 1..Len(batch) :
            Sends(batch[i], tickNow + tz) => attempts[batch[i].id] = 1

C6_Witness ==
    /\ TickDone
    /\ \E i, j \in 1..Len(batch) :
           /\ i < j
           /\ outcome[batch[i].id] \in {"fail", "sent"}
           /\ attempts[batch[j].id] = 1

\* C7: a fetch that raises leaves the loop alive, and the next fetch starts
\* only after at least two poll intervals of sleep (the interval and one
\* more), however many fetches have failed in a row.
C7_BackoffAndRetry ==
    /\ fails > 0 => pc \in {"backoff", "sleep", "fetch", "cancelled"}
    /\ (pc = "fetch" /\ fails > 0) => slept >= 2 * PollSeconds
    /\ pc = "backoff" => ENABLED BackoffDone

C7_Witness == pc = "fetch" /\ fails >= 2 /\ slept >= 2 * PollSeconds

\* C8: in a tick at most one dispatch attempt is started per reminder, and
\* only for a reminder that is active and whose reminder_time is at or
\* before the clock the fetch compared with (in bot_modular.py also at or
\* before the local clock).
C8_OnlyDueOncePerTick ==
    /\ [](\A r \in Ids : attempts[r] <= 1)
    /\ [][\A r \in Ids :
             AttemptStart(r)
                 => /\ store'[r].is_active
                    /\ store'[r].reminder_time.wall <= tickNow'
                    /\ boot = "bot_modular"
                           => store'[r].reminder_time.wall <= LocalNow]_vars

C8_Witness ==
    /\ TickDone
    /\ \E r, q \in Ids :
           /\ attempts[r] = 1
           /\ attempts[q] = 0
           /\ store[q].is_active
           /\ store[q].reminder_time.wall > now

\* C9 as claimed: a send that is in flight when the task is cancelled
\* returns before the loop exits.
C9_AsClaimed == [][pc = "send" => pc' # "cancelled"]_vars

\* C10 as claimed: while the application polls, exactly one scheduler task
\* has been started, and it is cancelled when the process exits.
C10_AsClaimed ==
    /\ app = "polling" => nsched = 1
    /\ app = "exited" => (nsched = 1 /\ pc = "cancelled")

\* C11: no step of the scheduler adds a reminder id to the store or removes
\* one, and the update that follows the send of a reminder a user deleted
\* after the fetch leaves the store as it is: the reminder stays deleted.
C11_SchedulerKeepsIds ==
    [][Next => /\ DOMAIN store' = DOMAIN store
               /\ (pc = "update" /\ batch[idx].id \notin DOMAIN store)
                      => store' = store]_vars

\* the update of a reminder that was fetched, sent and then deleted is in
\* flight, next to a reminder that is still stored
C11_Witness ==
    /\ pc = "update"
    /\ outcome[batch[idx].id] = "sent"
    /\ batch[idx].id \notin DOMAIN store
    /\ DOMAIN store # {}

\* both entry points have returned
BothCalled == {"parse_time", "parse_time_input"} \subseteq called

\* the duration of the unit named by the u-th word of UnitWords: three
\* forms each of minute, hour, day and week
UnitDuration(u) ==
    CASE u \in 1..3 -> SecondsPerMinute
      [] u \in 4..6 -> SecondsPerHour
      [] u \in 7..9 -> SecondsPerDay
      [] u \in 10..12 -> DaysPerWeek * SecondsPerDay

\* C12 as claimed: "cherez N <unit>", for every amount N and every form of
\* every unit word, resolves to the reference plus N times the unit's
\* duration, through parse_time and through parse_time_input.
C12_AsClaimed ==
    \A n \in Amounts, u \in DOMAIN UnitWords :
        text = Cherez(n, UnitWords[u]) =>
            /\ "parse_time" \in called =>
                   /\ parsed.kind = "time"
                   /\ parsed.t = reference + n * UnitDuration(u)
            /\ "parse_time_input" \in called =>
                   /\ parsedInput.kind = "time"
                   /\ parsedInput.t = reference + n * UnitDuration(u)

\* the text is the word "zavtra" (tomorrow), in lower case or capitalised
IsTomorrow == text \in { <<W("zavtra")>>, <<Cap("zavtra")>> }

\* C13 as claimed: "zavtra" resolves to the day after the reference date,
\* at 09:00.
C13_AsClaimed ==
    IsTomorrow =>
        /\ "parse_time" \in called =>
               /\ parsed.kind = "time"
               /\ DateOf(parsed.t) = DateOf(reference) + 1
               /\ HourOf(parsed.t) = DefaultHour
               /\ MinuteOf(parsed.t) = 0
        /\ "parse_time_input" \in called =>
               /\ parsedInput.kind = "time"
               /\ DateOf(parsedInput.t) = DateOf(reference) + 1
               /\ HourOf(parsedInput.t) = DefaultHour
               /\ MinuteOf(parsedInput.t) = 0

\* C13, amended: "zavtra" resolves to the reference plus one day: the day
\* after the reference date, at the reference's own time of day, through
\* both entry points.
C13_TomorrowSameTime ==
    IsTomorrow =>
        /\ "parse_time" \in called =>
               /\ parsed.kind = "time"
               /\ DateOf(parsed.t) = DateOf(reference) + 1
               /\ parsed.t % SecondsPerDay = reference % SecondsPerDay
        /\ "parse_time_input" \in called =>
               /\ parsedInput.kind = "time"
               /\ DateOf(parsedInput.t) = DateOf(reference) + 1
               /\ parsedInput.t % SecondsPerDay = reference % SecondsPerDay

C13_Witness ==
    /\ IsTomorrow
    /\ BothCalled
    /\ parsed.t = reference + SecondsPerDay
    /\ parsedInput.t = parsed.t
    /\ HourOf(parsed.t) # DefaultHour
    /\ YearOf(parsed.t) = YearOf(reference) + 1

\* C14 as claimed: "poslezavtra" (the day after tomorrow) resolves to the
\* reference plus two days.
C14_AsClaimed ==
    text = <<W("posle"), W("zavtra")>> =>
        /\ "parse_time" \in called =>
               /\ parsed.kind = "time"
               /\ parsed.t = reference + 2 * SecondsPerDay
        /\ "parse_time_input" \in called =>
               /\ parsedInput.kind = "time"
               /\ parsedInput.t = reference + 2 * SecondsPerDay

\* the text is a clock time HH:MM alone
IsClock ==
    /\ Len(text) = 3
    /\ text[1].s = "0-9"
    /\ text[2] = Colon
    /\ text[3].s = "0-9"
    /\ text[1].v \in 0..(HoursPerDay - 1)
    /\ text[3].v \in 0..(MinutesPerHour - 1)

\* C15: parse_time resolves "HH:MM" to the reference date at HH:MM when
\* HH:MM is later than the reference's hour:minute and to the next day at
\* HH:MM otherwise; the result is after the reference and less than 24
\* hours and one minute ahead of it.
C15_ClockRollForward ==
    (IsClock /\ "parse_time" \in called) =>
        LET hour == text[1].v
            minute == text[3].v
            later == \/ hour > HourOf(reference)
                     \/ hour = HourOf(reference)
                            /\ minute > MinuteOf(reference)
        IN /\ parsed.kind = "time"
           /\ parsed.t = combine(IF later THEN DateOf(reference)
                                          ELSE DateOf(reference) + 1,
                                 hour, minute)
           /\ parsed.t > reference
           /\ parsed.t - reference < SecondsPerDay + SecondsPerMinute

\* a clock time equal to the reference's hour:minute went to the next day
C15_Witness ==
    /\ IsClock
    /\ "parse_time" \in called
    /\ text[1].v = HourOf(reference)
    /\ text[3].v = MinuteOf(reference)
    /\ DateOf(parsed.t) = DateOf(reference) + 1
    /\ parsed.t - reference = SecondsPerDay

\* the text is DD.MM alone
IsDate ==
    /\ Len(text) = 3
    /\ text[1].s = "0-9"
    /\ text[2] = Dot
    /\ text[3].s = "0-9"

\* day.month is a date of that year
DateExists(year, month, day) ==
    /\ month \in 1..12
    /\ day >= 1
    /\ day <= DaysInMonth(year, month)

\* what C16 gives for DD.MM: nine o'clock of that date in the reference's
\* year, or in the next year when that instant is before the reference
DateExpected(day, month) ==
    LET year == YearOf(reference)
        first == combine(DaysFromCivil(year, month, day), DefaultHour, 0)
    IN IF first < reference
       THEN combine(DaysFromCivil(year + 1, month, day), DefaultHour, 0)
       ELSE first

\* C16: "DD.MM", a date of the year it resolves to, resolves to DD.MM of the
\* reference's year at 09:00 unless that instant is strictly before the
\* reference, and then to DD.MM of the next year at 09:00, through both
\* entry points.
C16_DateRollsToNextYear ==
    LET day == text[1].v
        month == text[3].v
    IN (/\ IsDate
        /\ DateExists(YearOf(reference), month, day)
        /\ DateExists(YearOf(DateExpected(day, month)), month, day)) =>
            /\ "parse_time" \in called =>
                   parsed = Resolved(DateExpected(day, month))
            /\ "parse_time_input" \in called =>
                   /\ parsedInput.kind = "time"
                   /\ parsedInput.t = DateExpected(day, month)

\* 31.01 was past and went to the next year
C16_Witness ==
    /\ text = Date(31, 1)
    /\ BothCalled
    /\ YearOf(parsed.t) = YearOf(reference) + 1
    /\ parsedInput.t = parsed.t

\* the numbers of the digit runs of a text, in their order
RECURSIVE NumbersOf(_)
NumbersOf(str) ==
    IF str = <<>> THEN <<>>
    ELSE IF Head(str).s = "0-9" THEN <<Head(str).v>> \o NumbersOf(Tail(str))
    ELSE NumbersOf(Tail(str))

\* the instant a date with a clock time names: its own year, or the
\* reference's year when it has none
DateTimeNamed(str) ==
    LET n == NumbersOf(str)
    IN IF Len(n) = 5
       THEN combine(DaysFromCivil(n[3], n[2], n[1]), n[4], n[5])
       ELSE combine(DaysFromCivil(YearOf(reference), n[2], n[1]), n[3], n[4])

\* C17 as claimed: "DD.MM.YYYY [v] HH:MM" resolves to that day, month, year,
\* hour and minute, and "DD.MM [v] HH:MM" to that day, month, hour and
\* minute of the reference's year, through parse_time and through
\* parse_time_input.
C17_AsClaimed ==
    text \in DateTimeTexts =>
        /\ "parse_time" \in called => parsed = Resolved(DateTimeNamed(text))
        /\ "parse_time_input" \in called =>
               /\ parsedInput.kind = "time"
               /\ parsedInput.t = DateTimeNamed(text)

\* C18 as claimed: a text with fragments of two classes resolves to what the
\* fragment of the class of higher priority (offset, named day, absolute,
\* weekday) resolves to, through parse_time and through parse_time_input.
C18_AsClaimed ==
    \A a, b \in DOMAIN Classes :
        (a < b /\ text \in { ClassSample[Classes[a]] \o <<Sp>>
                                 \o ClassSample[Classes[b]],
                             ClassSample[Classes[b]] \o <<Sp>>
                                 \o ClassSample[Classes[a]] }) =>
            LET first == parse_time(ClassSample[Classes[a]], reference)
            IN /\ "parse_time" \in called => parsed = first
               /\ "parse_time_input" \in called =>
                      /\ parsedInput.kind = "time"
                      /\ parsedInput.t = first.t

\* the next date after the reference's date that falls on weekday number n
\* (Monday is 0), at 09:00
NextWeekday(n) ==
    LET ahead == ((n - weekday(reference) + DaysPerWeek - 1) % DaysPerWeek) + 1
    IN combine(DateOf(reference) + ahead, DefaultHour, 0)

\* C19 as claimed: a text naming a weekday resolves to the next date with
\* that weekday strictly after the reference's date, at 09:00 (seven days
\* ahead when the reference's weekday is the named one), for each of the
\* seven weekdays.
C19_AsClaimed ==
    \A n \in DOMAIN WeekdayPhrases :
        text = WeekdayPhrases[n] =>
            /\ "parse_time" \in called => parsed = Resolved(NextWeekday(n - 1))
            /\ "parse_time_input" \in called =>
                   /\ parsedInput.kind = "time"
                   /\ parsedInput.t = NextWeekday(n - 1)

\* the words of the parser's vocabulary, as the pieces texts are written in
TimeWords ==
    { "cherez", "segodnya", "zavtra", "minut", "chas", "den'", "dnya",
      "dney", "nedelyu", "nedeli", "nedel'", "ponedel'nik", "vtornik",
      "sred", "chetverg", "pyatnic", "subbot", "voskresen'e" }

\* the text has no digits and no word of the vocabulary
NoTimeExpression ==
    \A i \in 1..Len(text) : text[i].s \notin TimeWords \cup {"0-9"}

\* C20: for a text without a time expression parse_time_input returns no
\* time and the text as it was given, piece for piece.
C20_NoMatchKeepsText ==
    ("parse_time_input" \in called /\ NoTimeExpression) =>
        parsedInput = [kind |-> "none", t |-> 0, remainder |-> text]

\* the text returned begins and ends with the white space it was given with
C20_Witness ==
    /\ "parse_time_input" \in called
    /\ NoTimeExpression
    /\ Head(text) = Sp
    /\ text[Len(text)] = Sp
    /\ \E i \in 1..Len(text) : text[i].up
    /\ parsedInput.kind = "none"
    /\ parsedInput.remainder = text

\* the texts that are one time expression and nothing else
TimeExpressionTexts ==
    OffsetTexts \cup NamedDayTexts \cup ClockTexts \cup DateTexts
        \cup DateYearTexts \cup DateTimeTexts
        \cup { WeekdayPhrases[n] : n \in DOMAIN WeekdayPhrases }

\* str without its pieces i..j, trimmed
WithoutFragment(str, i, j) ==
    strip(SubSeq(str, 1, i - 1) \o SubSeq(str, j + 1, Len(str)))

\* C21 as claimed: when parse_time_input resolves a time, the remainder is
\* the text without one contiguous, non-empty fragment, trimmed, and nothing
\* of the time expression is left in it: a text that is a time expression
\* and nothing else leaves an empty remainder.
C21_AsClaimed ==
    ("parse_time_input" \in called /\ parsedInput.kind = "time") =>
        /\ \E i, j \in 1..Len(text) :
               /\ i <= j
               /\ parsedInput.remainder = WithoutFragment(text, i, j)
        /\ text \in TimeExpressionTexts => parsedInput.remainder = <<>>

\* the text is made of numbers, ":", ".", white space and the word "v" only
IsNumericExpression(str) ==
    /\ \A i \in 1..Len(str) : str[i].s \in {"0-9", ":", ".", " ", "v"}
    /\ \E i \in 1..Len(str) : str[i].s = "0-9"

\* hour:minute is a time of day
ClockExists(hour, minute) ==
    /\ hour \in 0..(HoursPerDay - 1)
    /\ minute \in 0..(MinutesPerHour - 1)

\* every component of the numeric expression is in range: a clock time, a
\* date DD.MM (in the reference's year and in the year it rolls to), a date
\* with its year, a date with a clock time
ComponentsInRange(str) ==
    LET n == NumbersOf(str)
    IN CASE Len(n) = 2 /\ HasColon(str) -> ClockExists(n[1], n[2])
         [] Len(n) = 2 /\ ~HasColon(str) ->
                /\ DateExists(YearOf(reference), n[2], n[1])
                /\ DateExists(YearOf(DateExpected(n[1], n[2])), n[2], n[1])
         [] Len(n) = 3 -> DateExists(n[3], n[2], n[1])
         [] Len(n) = 4 -> /\ DateExists(YearOf(reference), n[2], n[1])
                          /\ ClockExists(n[3], n[4])
         [] Len(n) = 5 -> /\ DateExists(n[3], n[2], n[1])
                          /\ ClockExists(n[4], n[5])
         [] OTHER -> TRUE

\* the text is a numeric date or time with a component out of range
OutOfRange == IsNumericExpression(text) /\ ~ComponentsInRange(text)

\* C22 as claimed: a numeric date or time with a component out of range
\* makes parse_time and parse_time_input fail with an error (no time, and
\* not the result of a text without a time), and the handler of the typed
\* reminder time stores no time.
C22_AsClaimed ==
    OutOfRange =>
        /\ "parse_time" \in called => parsed = ValueError
        /\ "parse_time_input" \in called => parsedInput = ValueError
        /\ "process_reminder_time_custom" \in called =>
               data.reminder_time = <<>>

\* C23 as claimed: an entry point called again with the same text for the
\* same reference instant returns what it returned the first time, whatever
\* the wall clock reads at the second call: neither parse_time nor
\* parse_time_input reads the clock.
C23_AsClaimed ==
    /\ repeated.parsed # Pending => repeated.parsed = parsed
    /\ repeated.parsedInput # Pending => repeated.parsedInput = parsedInput

\* the civil date of a timestamp in hours
CivilOfHour(t) == CivilFromDays(t \div HoursPerDay)

\* the calls made so far: occurrences[i + 1] is the return of call i
Calls == 1..(Len(occurrences) - 1)

\* b is a calendar months after a: the month count moves by months, the day
\* of month stays where b's month has it and is b's last day where it has
\* not, the hour stays
CalendarMonthsLater(a, b, months) ==
    LET from == CivilOfHour(a)
        to == CivilOfHour(b)
    IN /\ to.y * 12 + to.m = from.y * 12 + from.m + months
       /\ to.d = IF from.d <= DaysInMonth(to.y, to.m) THEN from.d
                 ELSE DaysInMonth(to.y, to.m)
       /\ b % HoursPerDay = a % HoursPerDay

\* C24: with kind monthly the calculator adds interval calendar months and
\* with kind yearly interval calendar years, for every interval >= 1; the
\* day of month is kept where the target month has it and is otherwise the
\* target month's last day.
C24_CalendarMonthsClamped ==
    (/\ recurrence.repeat_type \in {"monthly", "yearly"}
     /\ recurrence.repeat_interval >= 1) =>
        \A i \in Calls :
            CalendarMonthsLater(
                occurrences[i], occurrences[i + 1],
                IF recurrence.repeat_type = "monthly"
                THEN recurrence.repeat_interval
                ELSE 12 * recurrence.repeat_interval)

\* 31 January 2023 plus one month was 28 February 2023, at the same hour
C24_Witness ==
    /\ recurrence = [repeat_type |-> "monthly", repeat_interval |-> 1]
    /\ Len(occurrences) >= 2
    /\ occurrences[1] = HourOfDate(2023, 1, 31, 10)
    /\ occurrences[2] = HourOfDate(2023, 2, 28, 10)

\* monthly occurrences with interval 1 that start on a 31 January
FromJanuary31 ==
    /\ recurrence = [repeat_type |-> "monthly", repeat_interval |-> 1]
    /\ occurrences # <<>>
    /\ CivilOfHour(occurrences[1]).m = 1
    /\ CivilOfHour(occurrences[1]).d = 31

\* the year of the first occurrence
StartYear == CivilOfHour(occurrences[1]).y

\* C25 as claimed: from 31 January, the first monthly occurrence is the last
\* day of February (the 28th, the 29th in a leap year) and the second, the
\* calculator applied to its own result, is 31 March.
C25_AsClaimed ==
    FromJanuary31 =>
        /\ Len(occurrences) >= 2 =>
               CivilOfHour(occurrences[2]) =
                   [y |-> StartYear, m |-> 2, d |-> DaysInMonth(StartYear, 2)]
        /\ Len(occurrences) >= 3 =>
               CivilOfHour(occurrences[3]) =
                   [y |-> StartYear, m |-> 3, d |-> DaysInMonth(StartYear, 3)]

\* C25, amended: from 31 January, the first monthly occurrence is the last
\* day of February (the 28th, the 29th in a leap year) and the second, the
\* calculator applied to its own result, is the same day of March: 28 March,
\* or 29 March in a leap year, at the hour of the start.
C25_KeepsFebruaryDay ==
    FromJanuary31 =>
        /\ Len(occurrences) >= 2 =>
               occurrences[2] =
                   HourOfDate(StartYear, 2, DaysInMonth(StartYear, 2),
                              occurrences[1] % HoursPerDay)
        /\ Len(occurrences) >= 3 =>
               occurrences[3] =
                   HourOfDate(StartYear, 3, DaysInMonth(StartYear, 2),
                              occurrences[1] % HoursPerDay)

\* from 31 January 2024 through 29 February to 29 March
C25_Witness ==
    /\ FromJanuary31
    /\ Len(occurrences) = 3
    /\ occurrences[1] = HourOfDate(2024, 1, 31, 10)
    /\ occurrences[2] = HourOfDate(2024, 2, 29, 10)
    /\ occurrences[3] = HourOfDate(2024, 3, 29, 10)

\* the repeat kinds of the sample that neither the specification's enum nor
\* the calculator's lists of names hold
UnknownKinds == {"none", "fortnightly"}

\* C26 as claimed: with an interval below 1, or with a kind that is not
\* recognized ("none" included), no call of the calculator returns a
\* timestamp: it fails, and substitutes no default.
C26_AsClaimed ==
    (\/ recurrence.repeat_interval < 1
     \/ recurrence.repeat_type \in UnknownKinds) =>
        Len(occurrences) <= 1

\* b is the time of day of a, days days later
DaysLater(a, b, days) ==
    /\ b \div HoursPerDay = a \div HoursPerDay + days
    /\ b % HoursPerDay = a % HoursPerDay

\* C27: with kind daily the calculator returns current + interval days and
\* with kind weekly current + 7 * interval days, at the time of day of
\* current, for every current and every interval >= 1.
C27_DaysAndWeeks ==
    (/\ recurrence.repeat_type \in {"daily", "weekly"}
     /\ recurrence.repeat_interval >= 1) =>
        \A i \in Calls :
            DaysLater(occurrences[i], occurrences[i + 1],
                      IF recurrence.repeat_type = "daily"
                      THEN recurrence.repeat_interval
                      ELSE DaysPerWeek * recurrence.repeat_interval)

\* two weeks from 31 December 2023, 23:00, is 14 January 2024, 23:00
C27_Witness ==
    /\ recurrence = [repeat_type |-> "weekly", repeat_interval |-> 2]
    /\ Len(occurrences) >= 2
    /\ occurrences[1] = HourOfDate(2023, 12, 31, 23)
    /\ occurrences[2] = HourOfDate(2024, 1, 14, 23)

\* the repeat kinds of the specification's Reminder
RepeatKinds == {"none", "daily", "weekly", "monthly", "yearly"}

\* C28 as claimed: whatever reminders the creation handlers have added and
\* whatever the scheduler has done since, every stored reminder has a repeat
\* kind among none, daily, weekly, monthly, yearly and a repeat interval of
\* at least 1.
C28_AsClaimed ==
    \A r \in DOMAIN store :
        /\ store[r].repeat_type \in RepeatKinds
        /\ store[r].repeat_interval >= 1

\* this step is the update that follows the delivered send of r (a firing
\* of r that succeeded)
Fired(r) == outcome[r] = "sent" /\ outcome'[r] = "done"

\* C29: in bot_modular_old.py's scheduler, every successful firing of a
\* reminder whose repeat_type is not none leaves it active with a
\* reminder_time strictly later than the one it had, whatever its
\* repeat_type and repeat_interval (0 included); so the time by which a
\* reminder is overdue shrinks with every firing, and after finitely many
\* firings it is no longer due.
C29_RearmStrictlyLater ==
    [][\A r \in Ids :
          (Fired(r) /\ store[r].repeat_type # "none")
              => /\ store'[r].is_active
                 /\ store'[r].reminder_time.wall > store[r].reminder_time.wall
                 /\ tickNow - store'[r].reminder_time.wall
                        < tickNow - store[r].reminder_time.wall]_vars

\* a daily reminder that was two days and an hour overdue has been fired in
\* three ticks and is now due tomorrow
C29_Witness ==
    \E r \in Ids :
        /\ store[r].repeat_type = "daily"
        /\ store[r].is_active
        /\ store[r].reminder_time.wall = HoursPerDay - 1
        /\ store[r].reminder_time.wall > now
        /\ outcome[r] = "done"

\* C30: once parse_time and parse_time_input have both been called on the
\* same text at the same reference instant, one has resolved a time exactly
\* when the other has, and the two times are the same instant.
C30_AsClaimed ==
    BothCalled =>
        /\ (parsed.kind = "time") <=> (parsedInput.kind = "time")
        /\ (parsed.kind = "time" /\ parsedInput.kind = "time")
               => parsed.t = parsedInput.t
====
